---- MODULE Spec2Model ----
(***************************************************************************)
(* Lifecycle model of node.Node (src/node.go): Register, Start, Stop and   *)
(* Restart, the instance-directory lock, the service registry and the RPC  *)
(* endpoints, translated from the Go source; with them Node.Wait and       *)
(* Node.Service, the administrative StartRPC, StopRPC, StartWS and StopWS  *)
(* (src/api.go) and the routing of HTTP requests (src/unnamed/part_001).   *)
(*                                                                         *)
(* Spec follows the lifecycle of one Node and of two Nodes side by side;   *)
(* SpecRead adds the requests and lookups a Node serves, SpecWait the      *)
(* goroutines blocked in Wait, SpecAdmin the administrative calls,         *)
(* SpecLock the critical sections of Start and Stop, assignment by         *)
(* assignment, with the readers, SpecSub a peer-event subscription         *)
(* (PeerEvents, src/api.go).                                               *)
(*                                                                         *)
(* Start, Stop and Register hold n.lock for their whole body, so each is   *)
(* one atomic action.  Restart calls Stop and then Start, each taking the  *)
(* lock on its own, so it is two actions.  Go's map iteration order is     *)
(* unspecified: every `range` over a map is a nondeterministic choice of a *)
(* permutation.  Failures of collaborators outside the repository (the p2p *)
(* server, listeners, the file system) are nondeterministic inputs.        *)
(***************************************************************************)
EXTENDS Naturals, Sequences, FiniteSets, TLC

\* ------------------------------------------------------------------ bounds
\* Longest constructor list where requests and lookups are followed.
MaxFuncsFew == 1
\* Longest constructor list of a Node that runs alone.
MaxFuncs == 2
\* Longest constructor list of the second Node when two Nodes run side by side.
MaxFuncsPair == 1
\* Most events that one forwarding goroutine is followed through.
MaxEvents == 2

\* ------------------------------------------------------------- Go values
Nil == "nil"
NoEndpoint == <<>>
Nodes == {1, 2}

\* errors.go is not part of the sources; only the names are used.
ErrNodeRunning == "ErrNodeRunning"
ErrNodeStopped == "ErrNodeStopped"
ErrDatadirUsed == "ErrDatadirUsed"
ErrDuplicateService == "DuplicateServiceError"
ErrStop == "StopError"
ErrServiceUnknown == "ErrServiceUnknown"
ErrConstructor == "constructor failed"
ErrBoom == "boom"
ErrStopService == "stop failed"
ErrP2P == "p2p start failed"
ErrListen == "listen failed"
ErrRegisterName == "RegisterName failed"
ErrKeystore == "RemoveAll failed"
ErrRelease == "Release failed"
ErrAlreadyRunning == "already running"
ErrNotRunning == "not running"
ErrNotificationsUnsupported == "ErrNotificationsUnsupported"

\* ------------------------------------------------------------- services
\* A ServiceConstructor is described by the kind (reflect.Type) of the
\* Service it returns and by the errors its constructor, Start and Stop
\* return ("nil": none).
Kinds == {"A", "B", "C"}

Constructor(k, c, s, t) == [kind |-> k, ctorErr |-> c, startErr |-> s, stopErr |-> t]

Healthy(f) == f.ctorErr = Nil /\ f.startErr = Nil /\ f.stopErr = Nil

ServiceConstructors ==
    { Constructor("A", Nil, Nil, Nil),
      Constructor("B", Nil, Nil, Nil),
      Constructor("B", Nil, ErrBoom, Nil),
      Constructor("C", Nil, Nil, ErrStopService),
      Constructor("C", ErrConstructor, Nil, Nil) }

\* The constructors registered where two Nodes run side by side.
PairConstructors ==
    { Constructor("A", Nil, Nil, Nil),
      Constructor("B", Nil, ErrBoom, Nil) }

\* Service.APIs(): the rpc.API descriptors a service of each kind offers.
API(ns, pub, svc) == [Namespace |-> ns, Public |-> pub, Service |-> svc]

ServiceAPIs(kind) ==
    CASE kind = "A" -> { API("a", TRUE, "A") }
      [] kind = "B" -> { API("b", FALSE, "B") }
      [] OTHER -> {}

\* Node.apis(): the built-in administrative APIs.
apis ==
    { API("admin", FALSE, "PrivateAdminAPI"),
      API("admin", TRUE, "PublicAdminAPI"),
      API("debug", FALSE, "debug.Handler"),
      API("web3", TRUE, "PublicWeb3API") }

\* All orders in which a `range` may visit the keys S of a map.
Perms(S) ==
    { p \in [1..Cardinality(S) -> S] :
        \A i, j \in 1..Cardinality(S) : i # j => p[i] # p[j] }

\* The set of elements of a sequence, and how often x occurs in it.
Range(s) == { s[i] : i \in 1..Len(s) }
Count(s, x) == Cardinality({ i \in 1..Len(s) : s[i] = x })

\* ---------------------------------------------------------------- Config
Config(dir, name, ipc, hh, hp, wh, wp, hm, wm, wall) ==
    [DataDir |-> dir, Name |-> name, IPCPath |-> ipc,
     HTTPHost |-> hh, HTTPPort |-> hp, WSHost |-> wh, WSPort |-> wp,
     HTTPModules |-> hm, WSModules |-> wm, WSExposeAll |-> wall]

\* Config.IPCEndpoint, Config.HTTPEndpoint, Config.WSEndpoint: "" when not
\* configured, else the address; "%s:%d" is kept as the pair <<host, port>>.
IPCEndpoint(c) == IF c.IPCPath = "" THEN NoEndpoint ELSE <<c.IPCPath, 0>>
HTTPEndpoint(c) == IF c.HTTPHost = "" THEN NoEndpoint ELSE <<c.HTTPHost, c.HTTPPort>>
WSEndpoint(c) == IF c.WSHost = "" THEN NoEndpoint ELSE <<c.WSHost, c.WSPort>>

\* Config.instanceDir: DataDir joined with the instance name.
instanceDir(c) == IF c.DataDir = "" THEN <<>> ELSE <<c.DataDir, c.Name>>

\* makeAccountManager: an ephemeral key store exists when no key directory
\* can be derived from the configuration, i.e. when DataDir is empty.
ephemeralKeystore(c) == IF c.DataDir = "" THEN "tmp-keystore" ELSE ""

CfgPlain == Config("d", "geth", "", "", 0, "", 0, {}, {}, FALSE)
CfgOther == Config("d", "other", "", "", 0, "", 0, {}, {}, FALSE)
CfgShared == Config("d", "geth", "geth.ipc", "localhost", 8545, "localhost", 8545,
                    {"web3"}, {"a"}, FALSE)
CfgSplit == Config("", "geth", "", "localhost", 8545, "localhost", 8546,
                   {}, {}, TRUE)

\* WebSocket alone, with a module whitelist and WSExposeAll.
CfgExposeAll == Config("", "geth", "", "", 0, "localhost", 8546,
                       {}, {"web3"}, TRUE)

\* A string that is split and trimmed is kept as the sequence of its pieces:
\* names, "," and " ".  Config.HTTPVirtualHosts: every configuration has the
\* value of DefaultConfig.
HTTPVirtualHosts(c) == {<<"localhost">>}

\* Configurations of a Node that runs alone, and of the second of two Nodes.
Configs == {CfgShared, CfgSplit}
PairConfigs == {CfgPlain, CfgOther}
\* Configurations where requests and lookups are followed.
FewConfigs == Configs \cup {CfgExposeAll}

\* ------------------------------------------------------------------ state
VARIABLES
    node,        \* the fields of each Node (type Node struct)
    flocks,      \* file system: the LOCK files held, each with the owning Node
    listeners,   \* operating system: the bound listeners
    last,        \* per Node, what its most recent call did and returned
    restarting,  \* per Node, a Restart is between its Stop and its Start
    live,        \* the Nodes that were constructed
    closedChans, \* the channels that were closed
    waiters,     \* the goroutines that call Node.Wait
    writing,     \* per Node, the holder of n.lock and the assignments it has left
    sub          \* the peer-event subscription and its forwarding goroutine

vars == <<node, flocks, listeners, last, restarting, live, closedChans, waiters,
          writing, sub>>

\* The channels make(chan struct{}) can return for n.stop of each Node; which
\* one it returns is immaterial as long as nothing refers to it.
Chans(n) == IF n = 1 THEN {"ch1", "ch2", "ch3"} ELSE {"ch4", "ch5", "ch6"}

\* A goroutine calling Wait: where it is (pc: "idle" before the call,
\* "blocked" in `<-stop`, "returned"), the Node it waits on, the channel it
\* read from n.stop, whether it returned without blocking, and whether a Stop
\* has torn the Node down since it blocked.
Waiters == {"w1", "w2"}
NoWait == [pc |-> "idle", node |-> 1, ch |-> Nil, immediate |-> FALSE, ended |-> FALSE]

\* n.lock held for writing: the Node's fields as they were when the lock was
\* taken (old) and the fields the holder has still to assign, in the order of
\* the assignments in its body (todo).
NoWrite == [held |-> FALSE, old |-> <<>>, todo |-> <<>>]

\* The peer-event subscription of PrivateAdminAPI.PeerEvents: what the call
\* returned, where the forwarding goroutine is (pc: "none" before the call,
\* "loop" in its select, "done" after its return), whether its subscription
\* to the p2p server's events stands, which of the channels sub.Err(),
\* rpcSub.Err() and notifier.Closed() are ready, and how many events it
\* has passed to the notifier.
NoSub ==
    [pc |-> "none", err |-> Nil, subscribed |-> FALSE, subErr |-> FALSE,
     rpcSubErr |-> FALSE, closed |-> FALSE, forwarded |-> 0]

\* An *rpc.Server: the APIs registered on it, whether its HTTP handler is
\* wrapped by NewWebsocketUpgradeHandler, and the virtual hosts its HTTP
\* handler stack admits.
NilHandler == [nil |-> TRUE, apis |-> {}, ws |-> FALSE, vhosts |-> {}]
Handler(al, ws) == [nil |-> FALSE, apis |-> al, ws |-> ws, vhosts |-> {}]

\* New(conf): the Node as constructed.
New(conf) ==
    [config |-> conf,
     ephemeralKeystore |-> ephemeralKeystore(conf),
     instanceDirLock |-> Nil,
     server |-> Nil,
     serviceFuncs |-> <<>>,
     services |-> <<>>,
     rpcAPIs |-> {},
     inprocHandler |-> NilHandler,
     ipcEndpoint |-> IPCEndpoint(conf),
     ipcListener |-> Nil,
     ipcHandler |-> NilHandler,
     httpEndpoint |-> HTTPEndpoint(conf),
     httpWhitelist |-> {},
     httpListenerAddr |-> NoEndpoint,
     httpServer |-> Nil,
     httpHandler |-> NilHandler,
     wsEndpoint |-> WSEndpoint(conf),
     wsListenerAddr |-> NoEndpoint,
     wsHTTPServer |-> Nil,
     wsHandler |-> NilHandler,
     stop |-> Nil]

\* What a call did: the constructors invoked (indices into serviceFuncs) and
\* the ServiceContext each of them was handed (ctxs), the
\* kinds whose Start was invoked and those whose Start returned nil, the
\* kinds whose Stop was invoked and those whose Stop failed, what happened
\* to the p2p server, the endpoints the call started, whether it released
\* the instance lock and closed the stop channel.
\*
\* For a Stop that tears the Node down: the calls of its body, in order
\* (trace; a service's Stop is written as its kind), and the errors that
\* Release and os.RemoveAll returned.
\*
\* What came before it, as far as the properties need it:
\*   fresh: no Start or Stop was called on the Node yet (first: nor before
\*          this call);
\*   run:   1 for a Start, 2 for a Stop that directly follows a successful
\*          Start, 3 for a Start that directly follows such a Stop (then
\*          prevKinds are the kinds that Stop found committed);
\*   afterFailedStop: a Register directly follows a Stop that returned an
\*          error other than ErrNodeStopped;
\*   fault: the environment made a collaborator fail during the call (for
\*          run = 3: or during the Stop before it).
\*
\* For a served HTTP request: the transport of the listener it arrived on
\* (tr), the request (req), the dispatcher it was routed to (routed) and the
\* APIs registered on the rpc.Server behind that dispatcher (served).
\* For a Node.Service call: the kind asked for and the instance handed out
\* (inst: the index of the constructor that built it, 0 for none).
\* For an administrative StartRPC or StartWS: its host, port, apis and
\* vhosts arguments.
\* For a reader (Node.Server, Node.Service, Node.Attach): which one it was
\* and whether what it returned is present (Server: the *p2p.Server is not
\* nil; Attach: the client is connected to a handler that is not nil).
NoReport ==
    [op |-> "none", err |-> Nil, ctors |-> <<>>, ctxs |-> <<>>, starts |-> <<>>,
     started |-> <<>>, stops |-> <<>>, failed |-> {}, p2p |-> "none",
     eps |-> {}, kinds |-> {}, released |-> FALSE, closed |-> FALSE,
     fresh |-> TRUE, first |-> FALSE, run |-> 0, prevKinds |-> {},
     afterFailedStop |-> FALSE, fault |-> FALSE,
     tr |-> "none", req |-> <<>>, routed |-> "none",
     kind |-> "none", inst |-> 0, port |-> {}, modules |-> {},
     reader |-> "none", present |-> FALSE, trace |-> <<>>,
     releaseErr |-> Nil, keystoreErr |-> Nil, served |-> {},
     host |-> {}, vhosts |-> {}]

Chain(prev, rep) ==
    LET run == CASE rep.op = "Start" ->
                      IF prev.op = "Stop" /\ prev.run = 2 THEN 3 ELSE 1
                 [] rep.op = "Stop" ->
                      IF prev.op = "Start" /\ prev.err = Nil THEN 2 ELSE 0
                 [] OTHER -> 0
    IN  [rep EXCEPT !.fresh = prev.fresh /\ rep.op = "Register",
                    !.first = prev.fresh /\ rep.op # "Register",
                    !.run = run,
                    !.prevKinds = IF run = 3 THEN prev.kinds ELSE {},
                    !.fault = rep.fault \/ (run = 3 /\ prev.fault),
                    !.afterFailedStop = /\ rep.op = "Register"
                                        /\ prev.op = "Stop"
                                        /\ prev.err \notin {Nil, ErrNodeStopped}]

\* How many constructors Node n may register: a Node that runs alone up to
\* MaxFuncs; of two Nodes, the first none and the second up to MaxFuncsPair.
FuncBound(n) ==
    IF live = {1} THEN MaxFuncs ELSE IF n = 1 THEN 0 ELSE MaxFuncsPair

Init ==
    /\ live \in {{1}, {1, 2}}
    /\ \E c1 \in (IF live = {1} THEN Configs ELSE {CfgPlain}),
          c2 \in (IF live = {1} THEN {CfgPlain} ELSE PairConfigs) :
          node = [n \in Nodes |-> IF n = 1 THEN New(c1) ELSE New(c2)]
    /\ flocks = {}
    /\ listeners = {}
    /\ last = [n \in Nodes |-> NoReport]
    /\ restarting = [n \in Nodes |-> FALSE]
    /\ closedChans = {}
    /\ waiters = [w \in Waiters |-> NoWait]
    /\ writing = [n \in Nodes |-> NoWrite]
    /\ sub = NoSub

\* ---------------------------------------------------------------- Register
RegisterAlways(nd) == FALSE

\* Node.Register: `if n.server != nil { return ErrNodeRunning }`.
RegisterRunningCheck(nd) == nd.server # Nil

RegisterBody(nd, constructor) ==
    IF RegisterRunningCheck(nd)
    THEN [nd |-> nd, err |-> ErrNodeRunning]
    ELSE [nd |-> [nd EXCEPT !.serviceFuncs = Append(@, constructor)], err |-> Nil]

Register(n) ==
    /\ n \in live
    /\ Len(node[n].serviceFuncs) < FuncBound(n)
    /\ \E constructor \in (IF live = {1} THEN ServiceConstructors ELSE PairConstructors) :
         LET r == RegisterBody(node[n], constructor) IN
         /\ node' = [node EXCEPT ![n] = r.nd]
         /\ last' = [last EXCEPT ![n] =
                        Chain(@, [NoReport EXCEPT !.op = "Register", !.err = r.err])]
    /\ UNCHANGED <<flocks, listeners, restarting, live, closedChans, waiters,
                   writing, sub>>

\* --------------------------------------------------------------- endpoints
Ret(e, nd, ls) == [err |-> e, nd |-> nd, ls |-> ls]

Listener(self, tr, addr) == [node |-> self, tr |-> tr, addr |-> addr]

\* A TCP listen fails when the address is already bound.
AddrInUse(ls, addr) == \E l \in ls : l.tr \in {"http", "ws"} /\ l.addr = addr

RegisterEveryApi(al, modules, exposeAll) == al

\* RegisterApisFromWhitelist: the APIs registered on srv.
RegisterApisFromWhitelist(al, modules, exposeAll) ==
    { api \in al : \/ exposeAll
                   \/ api.Namespace \in modules
                   \/ (modules = {} /\ api.Public) }

\* Node.startInProc; fault: handler.RegisterName returns an error.
startInProc(nd, al, fault) ==
    IF fault THEN [err |-> ErrRegisterName, nd |-> nd]
    ELSE [err |-> Nil, nd |-> [nd EXCEPT !.inprocHandler = Handler(al, FALSE)]]

\* Node.stopInProc.
stopInProc(nd) ==
    IF ~nd.inprocHandler.nil THEN [nd EXCEPT !.inprocHandler = NilHandler] ELSE nd

\* Node.startIPC; fault: rpc.StartIPCEndpoint returns an error.
startIPC(nd, ls, self, al, fault) ==
    IF nd.ipcEndpoint = NoEndpoint THEN Ret(Nil, nd, ls)
    ELSE IF fault THEN Ret(ErrListen, nd, ls)
    ELSE Ret(Nil,
             [nd EXCEPT !.ipcListener = "listener", !.ipcHandler = Handler(al, FALSE)],
             ls \cup {Listener(self, "ipc", nd.ipcEndpoint)})

\* Node.stopIPC.
stopIPC(nd, ls, self) ==
    Ret(Nil,
        [nd EXCEPT !.ipcListener = Nil, !.ipcHandler = NilHandler],
        IF nd.ipcListener # Nil
        THEN ls \ {Listener(self, "ipc", nd.ipcEndpoint)}
        ELSE ls)

\* Node.startHTTP; fault: StartHTTPEndpoint returns an error for a reason
\* other than the address being bound already.
startHTTP(nd, ls, self, endpoint, al, modules, vhosts, fault) ==
    IF endpoint = NoEndpoint THEN Ret(Nil, nd, ls)
    ELSE IF fault \/ AddrInUse(ls, endpoint) THEN Ret(ErrListen, nd, ls)
    ELSE Ret(Nil,
             [nd EXCEPT !.httpEndpoint = endpoint,
                        !.httpListenerAddr = endpoint,
                        !.httpServer = "server",
                        !.httpHandler =
                            [Handler(RegisterApisFromWhitelist(al, modules, FALSE),
                                     nd.httpEndpoint = nd.wsEndpoint)
                               EXCEPT !.vhosts = vhosts]],
             ls \cup {Listener(self, "http", endpoint)})

\* Node.stopHTTP: Shutdown closes the listener of n.httpServer; the fields
\* httpServer and httpListenerAddr keep their values.
stopHTTP(nd, ls, self) ==
    Ret(Nil,
        [nd EXCEPT !.httpHandler = NilHandler],
        IF nd.httpServer # Nil
        THEN ls \ {Listener(self, "http", nd.httpListenerAddr)}
        ELSE ls)

\* Node.startWS; fault as for startHTTP.
startWS(nd, ls, self, endpoint, al, modules, exposeAll, fault) ==
    IF endpoint = NoEndpoint THEN Ret(Nil, nd, ls)
    ELSE IF fault \/ AddrInUse(ls, endpoint) THEN Ret(ErrListen, nd, ls)
    ELSE Ret(Nil,
             [nd EXCEPT !.wsEndpoint = endpoint,
                        !.wsListenerAddr = endpoint,
                        !.wsHTTPServer = "server",
                        !.wsHandler =
                            Handler(RegisterApisFromWhitelist(al, modules, exposeAll),
                                    TRUE)],
             ls \cup {Listener(self, "ws", endpoint)})

\* Node.stopWS.
stopWS(nd, ls, self) ==
    Ret(Nil,
        [nd EXCEPT !.wsHandler = NilHandler],
        IF nd.wsHTTPServer # Nil
        THEN ls \ {Listener(self, "ws", nd.wsListenerAddr)}
        ELSE ls)

\* The endpoint faults the environment may inject into one startRPC: one
\* for each endpoint that startRPC starts.
EndpointFaults(nd) ==
    {"none", "inproc"}
        \cup (IF nd.ipcEndpoint # NoEndpoint THEN {"ipc"} ELSE {})
        \cup (IF nd.httpEndpoint # NoEndpoint THEN {"http"} ELSE {})
        \cup (IF nd.wsEndpoint \notin {NoEndpoint, nd.httpEndpoint} THEN {"ws"} ELSE {})

\* Node.startRPC.  `eps` are the endpoints this call started, in order.
startRPC(nd, ls, self, services, fault) ==
    LET al == apis \cup UNION { ServiceAPIs(k) : k \in DOMAIN services }
        r1 == startInProc(nd, al, fault = "inproc")
        r2 == startIPC(r1.nd, ls, self, al, fault = "ipc")
        r3 == startHTTP(r2.nd, r2.ls, self, r2.nd.httpEndpoint, al,
                        r2.nd.config.HTTPModules, HTTPVirtualHosts(r2.nd.config),
                        fault = "http")
        r4 == startWS(r3.nd, r3.ls, self, r3.nd.wsEndpoint, al,
                      r3.nd.config.WSModules, r3.nd.config.WSExposeAll, fault = "ws")
        e1 == {"inproc"}
        e2 == e1 \cup (IF r2.nd.ipcListener # Nil THEN {"ipc"} ELSE {})
        e3 == e2 \cup (IF r3.ls # r2.ls THEN {"http"} ELSE {})
        e4 == e3 \cup (IF r4.ls # r3.ls THEN {"ws"} ELSE {})
    IN  IF r1.err # Nil THEN [err |-> r1.err, nd |-> r1.nd, ls |-> ls, eps |-> {}]
        ELSE IF r2.err # Nil
        THEN [err |-> r2.err, nd |-> stopInProc(r2.nd), ls |-> r2.ls, eps |-> e1]
        ELSE IF r3.err # Nil
        THEN LET u == stopIPC(r3.nd, r3.ls, self)
             IN  [err |-> r3.err, nd |-> stopInProc(u.nd), ls |-> u.ls, eps |-> e2]
        ELSE IF r3.nd.httpEndpoint # r3.nd.wsEndpoint /\ r4.err # Nil
        THEN LET u == stopHTTP(r4.nd, r4.ls, self)
                 v == stopIPC(u.nd, u.ls, self)
             IN  [err |-> r4.err, nd |-> stopInProc(v.nd), ls |-> v.ls, eps |-> e3]
        ELSE IF r3.nd.httpEndpoint # r3.nd.wsEndpoint
        THEN [err |-> Nil, nd |-> [r4.nd EXCEPT !.rpcAPIs = al], ls |-> r4.ls, eps |-> e4]
        ELSE [err |-> Nil, nd |-> [r3.nd EXCEPT !.rpcAPIs = al], ls |-> r3.ls, eps |-> e3]

\* ------------------------------------------------------------------ Start
\* convertFileLockError (errors.go): a lock held elsewhere becomes
\* ErrDatadirUsed, any other error is passed on.
convertFileLockError(err) == IF err = "EWOULDBLOCK" THEN ErrDatadirUsed ELSE err

openDataDirUnlocked(nd, fl, self) ==
    IF nd.config.DataDir = "" THEN [err |-> Nil, nd |-> nd, fl |-> fl]
    ELSE [err |-> Nil,
          nd |-> [nd EXCEPT !.instanceDirLock = "releaser"],
          fl |-> fl \cup {[dir |-> instanceDir(nd.config), owner |-> self]}]

\* Node.openDataDir: fileutil.Flock on <instdir>/LOCK fails while any handle
\* holds the lock, and else stores the releaser in n.instanceDirLock.
openDataDir(nd, fl, self) ==
    IF nd.config.DataDir = "" THEN [err |-> Nil, nd |-> nd, fl |-> fl]
    ELSE IF \E f \in fl : f.dir = instanceDir(nd.config)
    THEN [err |-> convertFileLockError("EWOULDBLOCK"), nd |-> nd, fl |-> fl]
    ELSE [err |-> Nil,
          nd |-> [nd EXCEPT !.instanceDirLock = "releaser"],
          fl |-> fl \cup {[dir |-> instanceDir(nd.config), owner |-> self]}]

StartAlways(nd) == FALSE

\* Node.Start: `if n.server != nil { return ErrNodeRunning }`.
StartRunningCheck(nd) == nd.server # Nil

ConstructorsButLast(nd) ==
    SubSeq(nd.serviceFuncs, 1, Len(nd.serviceFuncs) - 1)

\* Node.Start: `for _, constructor := range n.serviceFuncs`.
ConstructorsToRun(nd) == nd.serviceFuncs

DuplicateUnchecked(services, kind) == FALSE

\* Node.Start: `if _, exists := services[kind]; exists`.
DuplicateKind(services, kind) == kind \in DOMAIN services

\* The Service a constructor returns (idx: which constructor built it).
Service(f, idx) ==
    [kind |-> f.kind, startErr |-> f.startErr, stopErr |-> f.stopErr, idx |-> idx]

ContextWithoutServices(services) == [services |-> <<>>]

\* Node.Start: the ServiceContext of a constructor, its services a copy of
\* the map built so far (`for kind, s := range services { ctx.services[kind] = s }`).
NewServiceContext(services) ==
    [services |-> [kind \in DOMAIN services |-> services[kind]]]

\* ServiceContext.Service, asked for the service of `kind`.
ContextService(ctx, kind) ==
    IF kind \in DOMAIN ctx.services
    THEN [err |-> Nil, inst |-> ctx.services[kind].idx]
    ELSE [err |-> ErrServiceUnknown, inst |-> 0]

\* Node.Start, the constructor loop from constructor i on; log and ctxs: the
\* constructors invoked so far and the contexts they were handed.
RECURSIVE construct(_, _, _, _, _)
construct(funcs, i, services, log, ctxs) ==
    LET ctx == NewServiceContext(services)
        done == [services |-> services, ctors |-> Append(log, i),
                 ctxs |-> Append(ctxs, ctx)]
    IN  IF i > Len(funcs)
        THEN [err |-> Nil, services |-> services, ctors |-> log, ctxs |-> ctxs]
        ELSE IF funcs[i].ctorErr # Nil
        THEN [err |-> funcs[i].ctorErr] @@ done
        ELSE IF DuplicateKind(services, funcs[i].kind)
        THEN [err |-> ErrDuplicateService] @@ done
        ELSE construct(funcs, i + 1,
                       services @@ (funcs[i].kind :> Service(funcs[i], i)),
                       Append(log, i), Append(ctxs, ctx))

\* Node.Start, the service start loop visiting the map in `order`: the index
\* of the first service whose Start fails (0: none).
FirstStartFailure(services, order) ==
    IF \E i \in 1..Len(order) : services[order[i]].startErr # Nil
    THEN CHOOSE i \in 1..Len(order) :
            /\ services[order[i]].startErr # Nil
            /\ \A j \in 1..(i - 1) : services[order[j]].startErr = Nil
    ELSE 0

\* Node.Start, rollback of a failed service start:
\* `for _, kind := range started { services[kind].Stop() }`.
RollbackStarted(started) == started

RollbackNone(order) == <<>>

\* Node.Start, rollback of a failed startRPC:
\* `for _, service := range services { service.Stop() }`, map visited in `order`.
RollbackServices(order) == order

\* The channels some goroutine blocked in Wait refers to.
Held == { waiters[w].ch : w \in { v \in Waiters : waiters[v].pc = "blocked" } }

\* Node.Start: `n.stop = make(chan struct{})`, a channel nothing refers to.
NewChan(n) ==
    IF node[n].stop # Nil /\ node[n].stop \notin Held THEN node[n].stop
    ELSE CHOOSE c \in Chans(n) : c \notin Held

\* The fields Start assigns, in the order of its assignments: openDataDir,
\* startInProc, startIPC, startHTTP, startWS, startRPC and the commit
\* (node.go:204, 243, 260-261, 299-302, 330-333, 232, 184-186).
StartWrites ==
    <<"instanceDirLock", "inprocHandler", "ipcListener", "ipcHandler",
      "httpEndpoint", "httpListenerAddr", "httpServer", "httpHandler",
      "wsEndpoint", "wsListenerAddr", "wsHTTPServer", "wsHandler",
      "rpcAPIs", "services", "server", "stop">>

\* The fields Stop assigns, in the order of its assignments: stopWS,
\* stopHTTP, stopIPC and node.go:355, 365, 366, 371.
StopWrites ==
    <<"wsHandler", "httpHandler", "ipcListener", "ipcHandler",
      "rpcAPIs", "services", "server", "instanceDirLock">>

\* The calls that are followed assignment by assignment while they hold
\* n.lock, each with the fields it assigns.
Writes == [LockedStart |-> StartWrites, LockedStop |-> StopWrites]

\* The assignments of `order` that change a field between old and new.
Pending(order, old, new) == SelectSeq(order, LAMBDA f : old[f] # new[f])

\* n.lock.Lock() and n.lock.RLock() return when no writer holds the lock.
Lock(n) == ~writing[n].held

RLockAbsent(n) == TRUE

RLock(n) == ~writing[n].held

\* The fields of Node n as memory holds them: while a writer is in its body,
\* the fields it has still to assign have their old values.
View(n) ==
    IF writing[n].held
    THEN [f \in DOMAIN node[n] |->
            IF f \in Range(writing[n].todo) THEN writing[n].old[f] ELSE node[n][f]]
    ELSE node[n]

\* What every call leaves behind.  A Stop that tears the Node down closes
\* the channel in n.stop; the channel a successful Start made is open.
Effect(n, via, nd, fl, ls, rep) ==
    /\ node' = [node EXCEPT ![n] = nd]
    /\ flocks' = fl
    /\ listeners' = ls
    /\ last' = [last EXCEPT ![n] = Chain(@, rep)]
    /\ restarting' = [restarting EXCEPT ![n] =
                        IF via = "RestartStop" THEN rep.err = Nil
                        ELSE IF via = "RestartStart" THEN FALSE
                        ELSE @]
    /\ closedChans' = IF rep.closed THEN closedChans \cup {node[n].stop}
                      ELSE IF rep.op = "Start" /\ rep.err = Nil
                      THEN closedChans \ {nd.stop}
                      ELSE closedChans
    /\ waiters' = [w \in Waiters |->
                     IF rep.closed /\ waiters[w].pc = "blocked" /\ waiters[w].node = n
                     THEN [waiters[w] EXCEPT !.ended = TRUE]
                     ELSE waiters[w]]
    /\ writing' = IF via \in DOMAIN Writes
                  THEN [writing EXCEPT ![n] =
                          [held |-> TRUE, old |-> node[n],
                           todo |-> Pending(Writes[via], node[n], nd)]]
                  ELSE writing
    /\ UNCHANGED <<live, sub>>

StartReport == [NoReport EXCEPT !.op = "Start"]

\* Node.Start, from the service start loop on.
StartServices(n, via, nd, fl, c) ==
    \E order \in Perms(DOMAIN c.services) :
      LET bad == FirstStartFailure(c.services, order) IN
      IF bad # 0
      THEN Effect(n, via, nd, fl, listeners,
                  [StartReport EXCEPT
                      !.err = c.services[order[bad]].startErr,
                      !.ctors = c.ctors, !.ctxs = c.ctxs,
                      !.starts = SubSeq(order, 1, bad),
                      !.started = SubSeq(order, 1, bad - 1),
                      !.stops = RollbackStarted(SubSeq(order, 1, bad - 1)),
                      !.p2p = "stopped"])
      ELSE \E fault \in EndpointFaults(nd) :
             LET r == startRPC(nd, listeners, n, c.services, fault)
                 rep == [StartReport EXCEPT !.ctors = c.ctors, !.ctxs = c.ctxs, !.starts = order,
                                            !.started = order, !.eps = r.eps,
                                            !.fault = fault # "none"]
             IN  IF r.err # Nil
                 THEN \E stopOrder \in Perms(DOMAIN c.services) :
                        Effect(n, via, r.nd, fl, r.ls,
                               [rep EXCEPT !.err = r.err,
                                           !.stops = RollbackServices(stopOrder),
                                           !.p2p = "stopped"])
                 ELSE Effect(n, via,
                             [r.nd EXCEPT !.services = c.services,
                                          !.server = "running",
                                          !.stop = NewChan(n)],
                             fl, r.ls,
                             [rep EXCEPT !.p2p = "started",
                                         !.kinds = DOMAIN c.services])

\* Node.Start.
StartCall(n, via) ==
    LET nd == node[n]
        o == openDataDir(nd, flocks, n)
        c == construct(ConstructorsToRun(nd), 1, <<>>, <<>>, <<>>)
    IN  IF StartRunningCheck(nd)
        THEN Effect(n, via, nd, flocks, listeners,
                    [StartReport EXCEPT !.err = ErrNodeRunning])
        ELSE IF o.err # Nil
        THEN Effect(n, via, o.nd, o.fl, listeners, [StartReport EXCEPT !.err = o.err])
        ELSE IF c.err # Nil
        THEN Effect(n, via, o.nd, o.fl, listeners,
                    [StartReport EXCEPT !.err = c.err, !.ctors = c.ctors, !.ctxs = c.ctxs])
        ELSE \E p2pFault \in BOOLEAN :
               IF p2pFault
               THEN Effect(n, via, o.nd, o.fl, listeners,
                           [StartReport EXCEPT !.err = convertFileLockError(ErrP2P),
                                               !.ctors = c.ctors, !.ctxs = c.ctxs, !.p2p = "failed",
                                               !.fault = TRUE])
               ELSE StartServices(n, via, o.nd, o.fl, c)

Start(n) == n \in live /\ StartCall(n, "Start")

\* ------------------------------------------------------------------- Stop
StopAlways(nd) == FALSE

\* Node.Stop: `if n.server == nil { return ErrNodeStopped }`.
StopStoppedCheck(nd) == nd.server = Nil

StopKeepsLock(nd) == FALSE

\* Node.Stop: `if n.instanceDirLock != nil { Release(); n.instanceDirLock = nil }`.
StopReleasesLock(nd) == nd.instanceDirLock # Nil

\* What Release may do: succeed, fail having unlocked, fail still locked.
ReleaseOutcomes(nd) ==
    IF StopReleasesLock(nd) THEN {"ok", "failed-unlocked", "failed-locked"} ELSE {"ok"}

StopFailuresNone(services) == {}

\* Node.Stop: `if err := service.Stop(); err != nil { failure.Services[kind] = err }`.
StopFailures(services) == { k \in DOMAIN services : services[k].stopErr # Nil }

\* os.RemoveAll(n.ephemeralKeystore) may fail, when there is such a directory.
KeystoreFaults(nd) == IF nd.ephemeralKeystore # "" THEN BOOLEAN ELSE {FALSE}

StopResultWithRelease(failed, keystoreErr, releaseErr) ==
    IF failed # {} THEN ErrStop
    ELSE IF keystoreErr # Nil THEN keystoreErr
    ELSE releaseErr

\* Node.Stop, what it returns: the StopError if a service failed to stop,
\* else the error of os.RemoveAll; the error of Release is logged only.
StopResult(failed, keystoreErr, releaseErr) ==
    IF failed # {} THEN ErrStop ELSE keystoreErr

StopStepsServicesFirst(nd, order) ==
    order \o <<"stopWS", "stopHTTP", "stopIPC", "server.Stop">>
          \o (IF StopReleasesLock(nd) THEN <<"Release">> ELSE <<>>)
          \o <<"close">>
          \o (IF nd.ephemeralKeystore # "" THEN <<"RemoveAll">> ELSE <<>>)

\* Node.Stop: the calls of its body in the order of the code, the services
\* visited in `order`.
StopSteps(nd, order) ==
    <<"stopWS", "stopHTTP", "stopIPC">>
          \o order
          \o <<"server.Stop">>
          \o (IF StopReleasesLock(nd) THEN <<"Release">> ELSE <<>>)
          \o <<"close">>
          \o (IF nd.ephemeralKeystore # "" THEN <<"RemoveAll">> ELSE <<>>)

\* Node.Stop.
StopCall(n, via) ==
    LET nd == node[n] IN
    IF StopStoppedCheck(nd)
    THEN Effect(n, via, nd, flocks, listeners,
                [NoReport EXCEPT !.op = "Stop", !.err = ErrNodeStopped])
    ELSE \E order \in Perms(DOMAIN nd.services),
            release \in ReleaseOutcomes(nd), ksFault \in KeystoreFaults(nd) :
           LET w == stopWS(nd, listeners, n)
               h == stopHTTP(w.nd, w.ls, n)
               i == stopIPC(h.nd, h.ls, n)
               failed == StopFailures(nd.services)
               unlock == StopReleasesLock(i.nd)
               fl == IF unlock /\ release # "failed-locked"
                     THEN flocks \ {[dir |-> instanceDir(nd.config), owner |-> n]}
                     ELSE flocks
               keystoreErr == IF nd.ephemeralKeystore # "" /\ ksFault
                              THEN ErrKeystore ELSE Nil
               releaseErr == IF unlock /\ release # "ok" THEN ErrRelease ELSE Nil
               nd2 == [i.nd EXCEPT !.rpcAPIs = {},
                                   !.services = <<>>,
                                   !.server = Nil,
                                   !.instanceDirLock = IF unlock THEN Nil ELSE @]
           IN  Effect(n, via, nd2, fl, i.ls,
                      [NoReport EXCEPT
                          !.op = "Stop",
                          !.err = StopResult(failed, keystoreErr, releaseErr),
                          !.keystoreErr = keystoreErr,
                          !.releaseErr = releaseErr,
                          !.stops = order,
                          !.trace = StopSteps(nd, order),
                          !.failed = failed,
                          !.p2p = "stopped",
                          !.kinds = DOMAIN nd.services,
                          !.released = unlock,
                          !.closed = TRUE,
                          !.fault = ksFault \/ release # "ok"])

Stop(n) == n \in live /\ StopCall(n, "Stop")

\* ---------------------------------------------------------------- Restart
\* Node.Restart: `if err := n.Stop(); err != nil { return err }` ...
RestartStop(n) == n \in live /\ ~restarting[n] /\ StopCall(n, "RestartStop")

\* ... `if err := n.Start(); err != nil { return err }`.
RestartStart(n) == n \in live /\ restarting[n] /\ StartCall(n, "RestartStart")

\* --------------------------------------------------------- HTTP requests
\* A header value is the sequence of its characters.  The pairs of an upper
\* case letter and its lower case form, for the letters that occur.
CasePairs ==
    { <<"W", "w">>, <<"E", "e">>, <<"B", "b">>, <<"S", "s">>, <<"O", "o">>,
      <<"C", "c">>, <<"K", "k">>, <<"T", "t">>, <<"U", "u">>, <<"P", "p">>,
      <<"G", "g">>, <<"R", "r">>, <<"A", "a">>, <<"D", "d">> }

\* strings.ToLower.
ToLowerChar(c) ==
    IF \E p \in CasePairs : p[1] = c
    THEN (CHOOSE p \in CasePairs : p[1] = c)[2]
    ELSE c

ToLower(str) == [i \in 1..Len(str) |-> ToLowerChar(str[i])]

websocket == <<"w", "e", "b", "s", "o", "c", "k", "e", "t">>
upgrade == <<"u", "p", "g", "r", "a", "d", "e">>

\* The values of the Upgrade and of the Connection header of a request
\* (<<>>: the header is absent, Header.Get returns "").
UpgradeValues ==
    { <<>>, websocket,
      <<"W", "e", "b", "S", "o", "c", "k", "e", "t">>,
      <<"W", "E", "B", "S", "O", "C", "K", "E", "T">>,
      <<"w", "e", "b", "s", "o", "c", "k", "e", "t", "s">>,
      <<"h", "2", "c">> }

ConnectionValues ==
    { <<>>, upgrade,
      <<"U", "p", "g", "r", "a", "d", "e">>,
      <<"U", "P", "G", "R", "A", "D", "E">>,
      <<"k", "e", "e", "p", "-", "a", "l", "i", "v", "e">>,
      <<"k", "e", "e", "p", "-", "a", "l", "i", "v", "e", ",", " ",
        "U", "p", "g", "r", "a", "d", "e">> }

Requests == [Upgrade : UpgradeValues, Connection : ConnectionValues]

isWebsocketExact(r) == r.Upgrade = websocket /\ r.Connection = upgrade

\* isWebsocket.
isWebsocket(r) ==
    /\ ToLower(r.Upgrade) = websocket
    /\ ToLower(r.Connection) = upgrade

\* The handler a listener was started with, applied to request r: the
\* WebSocket endpoint serves srv.WebsocketHandler; the HTTP endpoint serves
\* the HTTP handler stack, wrapped by NewWebsocketUpgradeHandler when
\* startHTTP found n.httpEndpoint == n.wsEndpoint.
Route(nd, l, r) ==
    IF l.tr = "ws" THEN "ws"
    ELSE IF nd.httpHandler.ws /\ isWebsocket(r) THEN "ws"
    ELSE "http"

\* The APIs of the rpc.Server that answers a request on listener l: the
\* WebSocket endpoint serves the srv of startWS; the HTTP endpoint serves
\* the srv of startHTTP, to plain requests through NewHTTPHandlerStack(srv)
\* and to upgrade requests through srv.WebsocketHandler(wsOrigins).
Served(nd, l) == IF l.tr = "ws" THEN nd.wsHandler.apis ELSE nd.httpHandler.apis

\* A client sends request r to one of the Node's TCP listeners.
ServeHTTP(n) ==
    /\ n \in live
    /\ \E l \in listeners, r \in Requests :
         /\ l.node = n
         /\ l.tr \in {"http", "ws"}
         /\ Effect(n, "ServeHTTP", node[n], flocks, listeners,
                   [NoReport EXCEPT !.op = "ServeHTTP", !.tr = l.tr, !.req = r,
                                    !.routed = Route(node[n], l, r),
                                    !.served = Served(node[n], l)])

\* ------------------------------------------------------- PrivateAdminAPI
DefaultHTTPHost == "localhost"
DefaultWSHost == "localhost"

\* An optional argument (a Go pointer) is the empty set for nil and the
\* singleton of its value else.  The hosts, ports, module lists and virtual
\* host lists that the administrative calls are given; a host and a list of
\* virtual hosts are strings, kept as the sequences of their pieces.
HostArgs == {{}, {<<"127.0.0.1">>}}
PortArgs == {{}, {8546}}
ApisArgs == {{}, {{"debug"}}}
VHostsArgs == {{}, {<<"a.com", ",", " ", "b.com">>}}

Deref(arg) == CHOOSE v \in arg : TRUE

\* strings.Split(str, ","), on pieces.
RECURSIVE Split(_)
Split(str) ==
    IF \E i \in 1..Len(str) : str[i] = ","
    THEN LET i == CHOOSE j \in 1..Len(str) :
                    str[j] = "," /\ \A k \in 1..(j - 1) : str[k] # ","
         IN  <<SubSeq(str, 1, i - 1)>> \o Split(SubSeq(str, i + 1, Len(str)))
    ELSE <<str>>

\* strings.TrimSpace, on pieces.
TrimSpace(str) ==
    LET solid == { i \in 1..Len(str) : str[i] # " " }
    IN  IF solid = {} THEN <<>>
        ELSE SubSeq(str, CHOOSE i \in solid : \A j \in solid : i <= j,
                         CHOOSE i \in solid : \A j \in solid : j <= i)

\* The entries of a comma separated list, each trimmed.
SplitTrimmed(str) == { TrimSpace(Split(str)[i]) : i \in 1..Len(Split(str)) }

\* "%s" of a host, which is a single name.
Text(str) == str[1]

\* PrivateAdminAPI.StartRPC, `if vhosts != nil`: the loop ranges over
\* strings.Split(*host, ",").
VHostsFromArgs(host, vhosts) == SplitTrimmed(host)

\* PrivateAdminAPI.StartRPC(host, port, cors = nil, apis, vhosts);
\* fault: the listener fails for a reason other than a bound address.
StartRPCBody(nd, ls, self, hostArg, port, modulesArg, vhostsArg, fault) ==
    IF ~nd.httpHandler.nil THEN Ret(ErrAlreadyRunning, nd, ls)
    ELSE LET host == IF hostArg # {} THEN Deref(hostArg)
                     ELSE IF nd.config.HTTPHost # "" THEN <<nd.config.HTTPHost>>
                     ELSE <<DefaultHTTPHost>>
             p == IF port = {} THEN nd.config.HTTPPort ELSE Deref(port)
             allowedVHosts == IF vhostsArg = {} THEN HTTPVirtualHosts(nd.config)
                              ELSE VHostsFromArgs(host, Deref(vhostsArg))
             modules == IF modulesArg = {} THEN nd.httpWhitelist ELSE Deref(modulesArg)
         IN  startHTTP(nd, ls, self, <<Text(host), p>>, nd.rpcAPIs, modules,
                       allowedVHosts, fault)

\* PrivateAdminAPI.StopRPC.
StopRPCBody(nd, ls, self) ==
    IF nd.httpHandler.nil THEN Ret(ErrNotRunning, nd, ls)
    ELSE stopHTTP(nd, ls, self)

\* PrivateAdminAPI.StartWS(host = nil, port, allowedOrigins = nil, apis).
StartWSBody(nd, ls, self, port, modulesArg, fault) ==
    IF ~nd.wsHandler.nil THEN Ret(ErrAlreadyRunning, nd, ls)
    ELSE LET host == IF nd.config.WSHost # "" THEN nd.config.WSHost
                     ELSE DefaultWSHost
             p == IF port = {} THEN nd.config.WSPort ELSE Deref(port)
             modules == IF modulesArg = {} THEN nd.config.WSModules ELSE Deref(modulesArg)
         IN  startWS(nd, ls, self, <<host, p>>, nd.rpcAPIs, modules,
                     nd.config.WSExposeAll, fault)

\* PrivateAdminAPI.StopWS.
StopWSBody(nd, ls, self) ==
    IF nd.wsHandler.nil THEN Ret(ErrNotRunning, nd, ls)
    ELSE stopWS(nd, ls, self)

AdminReport(op, r, hostArg, port, modulesArg, vhostsArg, fault) ==
    [NoReport EXCEPT !.op = op, !.err = r.err, !.host = hostArg, !.port = port,
                     !.modules = modulesArg, !.vhosts = vhostsArg, !.fault = fault]

StartRPC(n) ==
    /\ n \in live
    /\ \E hostArg \in HostArgs, port \in PortArgs, modulesArg \in ApisArgs,
          vhostsArg \in VHostsArgs, fault \in BOOLEAN :
         LET r == StartRPCBody(node[n], listeners, n, hostArg, port, modulesArg,
                               vhostsArg, fault) IN
         Effect(n, "StartRPC", r.nd, flocks, r.ls,
                AdminReport("StartRPC", r, hostArg, port, modulesArg, vhostsArg, fault))

StopRPC(n) ==
    /\ n \in live
    /\ LET r == StopRPCBody(node[n], listeners, n) IN
       Effect(n, "StopRPC", r.nd, flocks, r.ls, AdminReport("StopRPC", r, {}, {}, {}, {}, FALSE))

StartWS(n) ==
    /\ n \in live
    /\ \E port \in PortArgs, modulesArg \in ApisArgs, fault \in BOOLEAN :
         LET r == StartWSBody(node[n], listeners, n, port, modulesArg, fault) IN
         Effect(n, "StartWS", r.nd, flocks, r.ls,
                AdminReport("StartWS", r, {}, port, modulesArg, {}, fault))

StopWS(n) ==
    /\ n \in live
    /\ LET r == StopWSBody(node[n], listeners, n) IN
       Effect(n, "StopWS", r.nd, flocks, r.ls, AdminReport("StopWS", r, {}, {}, {}, {}, FALSE))

\* ----------------------------------------------------------- Node.Service
NodeServiceNeverStopped(nd) == FALSE

\* Node.Service: `if n.server == nil { return ErrNodeStopped }`.
NodeServiceStoppedCheck(nd) == nd.server = Nil

\* Node.Service, asked for the service of `kind`.
NodeServiceBody(nd, kind) ==
    IF NodeServiceStoppedCheck(nd) THEN [err |-> ErrNodeStopped, inst |-> 0]
    ELSE IF kind \in DOMAIN nd.services
    THEN [err |-> Nil, inst |-> nd.services[kind].idx]
    ELSE [err |-> ErrServiceUnknown, inst |-> 0]

NodeService(n) ==
    /\ n \in live
    /\ \E kind \in Kinds :
         LET r == NodeServiceBody(node[n], kind) IN
         Effect(n, "Service", node[n], flocks, listeners,
                [NoReport EXCEPT !.op = "Service", !.kind = kind,
                                 !.err = r.err, !.inst = r.inst])

\* ------------------------------------------------------------------- Wait
\* Node.Wait up to `<-stop`: under the read lock, return if n.server is nil,
\* else read n.stop.
WaitNeverIdle(nd) == FALSE

\* Node.Wait: `if n.server == nil { n.lock.RUnlock(); return }`.
WaitServerCheck(nd) == nd.server = Nil

WaitCall(w, n) ==
    /\ n \in live
    /\ waiters[w].pc = "idle"
    /\ waiters' = [waiters EXCEPT ![w] =
                      IF WaitServerCheck(node[n])
                      THEN [@ EXCEPT !.pc = "returned", !.node = n, !.immediate = TRUE]
                      ELSE [@ EXCEPT !.pc = "blocked", !.node = n, !.ch = node[n].stop]]
    /\ UNCHANGED <<node, flocks, listeners, last, restarting, live, closedChans,
                   writing, sub>>

\* Node.Wait, `<-stop`: the receive completes once the channel is closed.
WaitReturn(w) ==
    /\ waiters[w].pc = "blocked"
    /\ waiters[w].ch \in closedChans
    /\ waiters' = [waiters EXCEPT ![w] = [@ EXCEPT !.pc = "returned", !.ch = Nil]]
    /\ closedChans' = { c \in closedChans :
                          \/ \E n \in Nodes : node[n].stop = c
                          \/ \E v \in Waiters \ {w} :
                                waiters[v].pc = "blocked" /\ waiters[v].ch = c }
    /\ UNCHANGED <<node, flocks, listeners, last, restarting, live, writing, sub>>

\* ------------------------------------------- PrivateAdminAPI.PeerEvents
\* PeerEvents: ErrNodeStopped if Node.Server returns nil,
\* ErrNotificationsUnsupported if the context carries no notifier
\* (supported), else the subscription, with the forwarding goroutine spawned.
PeerEventsBody(nd, supported) ==
    IF nd.server = Nil THEN [err |-> ErrNodeStopped, pc |-> "none"]
    ELSE IF ~supported THEN [err |-> ErrNotificationsUnsupported, pc |-> "none"]
    ELSE [err |-> Nil, pc |-> "spawned"]

PeerEvents(n) ==
    /\ n \in live
    /\ sub.pc = "none"
    /\ \E supported \in BOOLEAN :
         LET r == PeerEventsBody(node[n], supported) IN
         sub' = [sub EXCEPT !.err = r.err, !.pc = r.pc]
    /\ UNCHANGED <<node, flocks, listeners, last, restarting, live, closedChans,
                   waiters, writing>>

\* The goroutine, `sub := server.SubscribeEvents(events)`.
SubscribeEvents ==
    /\ sub.pc = "spawned"
    /\ sub' = [sub EXCEPT !.pc = "loop", !.subscribed = TRUE]
    /\ UNCHANGED <<node, flocks, listeners, last, restarting, live, closedChans,
                   waiters, writing>>

\* The goroutine, `case event := <-events: notifier.Notify(rpcSub.ID, event)`:
\* the p2p server has an event to send.
Forward ==
    /\ sub.pc = "loop"
    /\ sub.forwarded < MaxEvents
    /\ sub' = [sub EXCEPT !.forwarded = @ + 1]
    /\ UNCHANGED <<node, flocks, listeners, last, restarting, live, closedChans,
                   waiters, writing>>

ExitReadyUpstreamOnly(s) == s.subErr

\* The select has a case that returns: sub.Err(), rpcSub.Err() or
\* notifier.Closed() is ready.
ExitReady(s) == s.subErr \/ s.rpcSubErr \/ s.closed

\* The goroutine, `return` out of the select; the deferred sub.Unsubscribe()
\* runs.
ExitLoop ==
    /\ sub.pc = "loop"
    /\ ExitReady(sub)
    /\ sub' = [sub EXCEPT !.pc = "done", !.subscribed = FALSE]
    /\ UNCHANGED <<node, flocks, listeners, last, restarting, live, closedChans,
                   waiters, writing>>

\* The p2p server ends the subscription: sub.Err() becomes ready.
SourceCloses ==
    /\ sub.subscribed
    /\ ~sub.subErr
    /\ sub' = [sub EXCEPT !.subErr = TRUE]
    /\ UNCHANGED <<node, flocks, listeners, last, restarting, live, closedChans,
                   waiters, writing>>

\* The client cancels the subscription: rpcSub.Err() becomes ready.
Cancel ==
    /\ sub.pc # "none"
    /\ ~sub.rpcSubErr
    /\ sub' = [sub EXCEPT !.rpcSubErr = TRUE]
    /\ UNCHANGED <<node, flocks, listeners, last, restarting, live, closedChans,
                   waiters, writing>>

\* The connection goes away: notifier.Closed() becomes ready.
NotifierCloses ==
    /\ sub.pc # "none"
    /\ ~sub.closed
    /\ sub' = [sub EXCEPT !.closed = TRUE]
    /\ UNCHANGED <<node, flocks, listeners, last, restarting, live, closedChans,
                   waiters, writing>>

\* ------------------------------------------------------------ n.lock
\* Start and Stop followed inside their critical section: the call takes
\* n.lock and runs its body, WriteStep is its next assignment to a field of
\* the Node, Unlock the deferred n.lock.Unlock().
LockedStart(n) == n \in live /\ Lock(n) /\ StartCall(n, "LockedStart")

LockedStop(n) == n \in live /\ Lock(n) /\ StopCall(n, "LockedStop")

RegisterLocked(n) == Lock(n) /\ Len(node[n].serviceFuncs) < MaxFuncsFew /\ Register(n)

WriteStep(n) ==
    /\ writing[n].held
    /\ writing[n].todo # <<>>
    /\ writing' = [writing EXCEPT ![n].todo = Tail(@)]
    /\ UNCHANGED <<node, flocks, listeners, last, restarting, live, closedChans,
                   waiters, sub>>

Unlock(n) ==
    /\ writing[n].held
    /\ writing[n].todo = <<>>
    /\ writing' = [writing EXCEPT ![n] = NoWrite]
    /\ UNCHANGED <<node, flocks, listeners, last, restarting, live, closedChans,
                   waiters, sub>>

\* The readers that take n.lock.RLock().
Readers == {"Server", "Service", "Attach"}

\* Node.Server: `return n.server`.
NodeServerBody(v) == [err |-> Nil, inst |-> 0, present |-> v.server # Nil]

\* Node.Attach: ErrNodeStopped if n.server is nil, else a client of
\* n.inprocHandler.
NodeAttachBody(v) ==
    IF v.server = Nil THEN [err |-> ErrNodeStopped, inst |-> 0, present |-> FALSE]
    ELSE [err |-> Nil, inst |-> 0, present |-> ~v.inprocHandler.nil]

\* What reader returns when it finds the fields v.
ReaderBody(reader, v, kind) ==
    CASE reader = "Server" -> NodeServerBody(v)
      [] reader = "Attach" -> NodeAttachBody(v)
      [] OTHER -> LET r == NodeServiceBody(v, kind)
                  IN  [err |-> r.err, inst |-> r.inst, present |-> r.err = Nil]

\* A goroutine calls one of the readers; it runs once RLock admits it.
Read(n) ==
    /\ n \in live
    /\ RLock(n)
    /\ \E reader \in Readers, kind \in Kinds :
         LET r == ReaderBody(reader, View(n), kind) IN
         /\ reader # "Service" => kind = "A"
         /\ Effect(n, "Read", node[n], flocks, listeners,
                   [NoReport EXCEPT !.op = "Read", !.reader = reader,
                                    !.kind = IF reader = "Service" THEN kind ELSE "none",
                                    !.err = r.err, !.inst = r.inst,
                                    !.present = r.present])

Next ==
    \E n \in Nodes :
        \/ Register(n)
        \/ Start(n)
        \/ Stop(n)
        \/ RestartStop(n)
        \/ RestartStart(n)

Spec == Init /\ [][Next]_vars

\* One Node alone, with few constructors.
InitFew ==
    /\ live = {1}
    /\ \E c \in FewConfigs :
          node = [n \in Nodes |-> IF n = 1 THEN New(c) ELSE New(CfgPlain)]
    /\ flocks = {}
    /\ listeners = {}
    /\ last = [n \in Nodes |-> NoReport]
    /\ restarting = [n \in Nodes |-> FALSE]
    /\ closedChans = {}
    /\ waiters = [w \in Waiters |-> NoWait]
    /\ writing = [n \in Nodes |-> NoWrite]
    /\ sub = NoSub

RegisterFew(n) == Len(node[n].serviceFuncs) < MaxFuncsFew /\ Register(n)

\* The lifecycle of one Node together with the HTTP requests it serves.
NextRead ==
    \E n \in Nodes :
        \/ RegisterFew(n)
        \/ Start(n)
        \/ Stop(n)
        \/ ServeHTTP(n)
        \/ NodeService(n)

SpecRead == InitFew /\ [][NextRead]_vars

\* One Node alone with the HTTP and WS endpoints configured.
InitAdmin ==
    /\ InitFew
    /\ node[1].config \in Configs

\* The lifecycle of one Node together with the administrative calls.
NextAdmin ==
    \E n \in Nodes :
        \/ Start(n)
        \/ Stop(n)
        \/ StartRPC(n)
        \/ StopRPC(n)
        \/ StartWS(n)
        \/ StopWS(n)

SpecAdmin == InitAdmin /\ [][NextAdmin]_vars

\* The lifecycle of one Node together with the goroutines that wait for it.
NextWait ==
    \/ \E n \in Nodes : Start(n) \/ Stop(n)
    \/ \E w \in Waiters, n \in Nodes : WaitCall(w, n)
    \/ \E w \in Waiters : WaitReturn(w)

\* A goroutine whose receive can complete is scheduled eventually.
SpecWait ==
    InitFew /\ [][NextWait]_vars /\ \A w \in Waiters : WF_vars(WaitReturn(w))

\* The lifecycle of one Node, assignment by assignment, with its readers.
NextLock ==
    \E n \in Nodes :
        \/ RegisterLocked(n)
        \/ LockedStart(n)
        \/ LockedStop(n)
        \/ WriteStep(n)
        \/ Unlock(n)
        \/ Read(n)

SpecLock == InitFew /\ [][NextLock]_vars

\* The lifecycle of one Node together with a peer-event subscription.
NextSub ==
    \/ \E n \in Nodes : Start(n) \/ Stop(n) \/ PeerEvents(n)
    \/ SubscribeEvents
    \/ Forward
    \/ ExitLoop
    \/ SourceCloses
    \/ Cancel
    \/ NotifierCloses

\* The goroutine is scheduled, and a select that has a case ready for good
\* takes it eventually: among the ready cases it chooses at random.
SpecSub ==
    InitFew /\ [][NextSub]_vars /\ WF_vars(SubscribeEvents) /\ WF_vars(ExitLoop)

\* ------------------------------------------------------------- properties
Running(n) == node[n].server # Nil
Idle(n) == node[n].server = Nil

\* The Node holds the releaser of its instance directory's lock.
HoldsLock(n) == node[n].instanceDirLock # Nil

\* Endpoint tr of Node n is up.
EndpointUp(n, tr) ==
    IF tr = "inproc" THEN ~node[n].inprocHandler.nil
    ELSE \E l \in listeners : l.node = n /\ l.tr = tr

\* Which call the step was, seen from the report it left.
StartStep(n) == last'[n] # last[n] /\ last'[n].op = "Start"
StopStep(n) == last'[n] # last[n] /\ last'[n].op = "Stop"
RegisterStep(n) == last'[n] # last[n] /\ last'[n].op = "Register"

\* The indices 1..k in order.
Upto(k) == [i \in 1..k |-> i]

FuncKinds(n) == { node[n].serviceFuncs[i].kind : i \in 1..Len(node[n].serviceFuncs) }

\* Every registered constructor is healthy and the kinds are distinct.
HealthySet(n) ==
    /\ \A i \in 1..Len(node[n].serviceFuncs) : Healthy(node[n].serviceFuncs[i])
    /\ Cardinality(FuncKinds(n)) = Len(node[n].serviceFuncs)

\* Two Nodes resolve to the same instance directory.
SameDir(m, n) ==
    /\ node[m].config.DataDir # ""
    /\ instanceDir(node[m].config) = instanceDir(node[n].config)

\* No other Node shares n's instance directory.
Alone(n) == \A m \in live \ {n} : ~SameDir(m, n)

A_ok == Constructor("A", Nil, Nil, Nil)
B_boom == Constructor("B", Nil, ErrBoom, Nil)

\* C2: with healthy A registered and then B whose Start fails with "boom",
\* the first Start of the Node (no collaborator failing) returns "boom" and
\* A's Stop has been invoked exactly once.
C2_BoomStopsAOnce ==
    \A n \in live :
        ( /\ last[n].op = "Start"
          /\ last[n].first
          /\ ~last[n].fault
          /\ Alone(n)
          /\ node[n].serviceFuncs = <<A_ok, B_boom>> ) =>
            /\ last[n].err = ErrBoom
            /\ Count(last[n].stops, "A") = 1

\* C3: a Node with a non-empty data directory holds the instance lock if and
\* only if it is Running.
C3_LockIffRunning ==
    \A n \in live :
        node[n].config.DataDir # "" => (HoldsLock(n) <=> Running(n))

\* C4: two Nodes on the same instance directory are never both Running, and
\* a Start of one while the other is Running returns ErrDatadirUsed, leaves
\* the caller Idle and neither constructs nor starts a service.
C4_OneRunningPerDir ==
    [][ \A m, n \in live :
          (m # n /\ SameDir(m, n)) =>
             /\ ~(Running(m)' /\ Running(n)')
             /\ (StartStep(n) /\ Running(m)) =>
                   /\ last'[n].err = ErrDatadirUsed
                   /\ Idle(n)'
                   /\ node'[n] = node[n]
                   /\ last'[n].ctors = <<>>
                   /\ last'[n].starts = <<>> ]_vars

\* C4 witness: the second Node has a constructor registered, and its Start
\* returned ErrDatadirUsed while the first Node is Running on the same
\* directory.
C4_Witness ==
    \E m, n \in live :
        /\ m # n /\ SameDir(m, n)
        /\ Running(m)
        /\ Len(node[n].serviceFuncs) > 0
        /\ last[n].op = "Start"
        /\ last[n].err = ErrDatadirUsed

\* C5: a Start on a Running Node returns ErrNodeRunning and changes no field
\* of the Node, no lock and no listener, and invokes no constructor, no
\* service Start and no service Stop.
C5_StartWhileRunning ==
    [][ \A n \in live :
          (StartStep(n) /\ Running(n)) =>
             /\ last'[n].err = ErrNodeRunning
             /\ node'[n] = node[n]
             /\ flocks' = flocks
             /\ listeners' = listeners
             /\ last'[n].ctors = <<>>
             /\ last'[n].starts = <<>>
             /\ last'[n].stops = <<>> ]_vars

\* C5 witness: a Start returned ErrNodeRunning on a Node with services.
C5_Witness ==
    \E n \in live :
        /\ last[n].op = "Start"
        /\ last[n].err = ErrNodeRunning
        /\ Running(n)
        /\ DOMAIN node[n].services # {}

\* C6: a Stop on an Idle Node returns ErrNodeStopped and changes no field of
\* the Node, no lock and no listener, stops no service and no p2p server and
\* does not close the stop channel.
C6_StopWhileIdle ==
    [][ \A n \in live :
          (StopStep(n) /\ Idle(n)) =>
             /\ last'[n].err = ErrNodeStopped
             /\ node'[n] = node[n]
             /\ flocks' = flocks
             /\ listeners' = listeners
             /\ last'[n].stops = <<>>
             /\ last'[n].p2p = "none"
             /\ ~last'[n].released
             /\ ~last'[n].closed ]_vars

\* C6 witness: a Stop returned ErrNodeStopped on a Node stopped before.
C6_Witness ==
    \E n \in live :
        /\ last[n].op = "Stop"
        /\ last[n].err = ErrNodeStopped
        /\ node[n].stop \in closedChans

\* C7: Register on an Idle Node returns nil and appends its constructor to
\* serviceFuncs, changing nothing else; on a Running Node it returns
\* ErrNodeRunning and changes nothing.
C7_RegisterIffIdle ==
    [][ \A n \in live :
          RegisterStep(n) =>
             IF Idle(n)
             THEN /\ last'[n].err = Nil
                  /\ Len(node'[n].serviceFuncs) = Len(node[n].serviceFuncs) + 1
                  /\ SubSeq(node'[n].serviceFuncs, 1, Len(node[n].serviceFuncs))
                        = node[n].serviceFuncs
                  /\ [node'[n] EXCEPT !.serviceFuncs = node[n].serviceFuncs] = node[n]
             ELSE /\ last'[n].err = ErrNodeRunning
                  /\ node'[n] = node[n] ]_vars

\* C7 witness: a Register succeeded right after a Stop that returned an error.
C7_Witness ==
    \E n \in live :
        /\ last[n].op = "Register"
        /\ last[n].err = Nil
        /\ last[n].afterFailedStop

\* Constructor i returns an error, or a service of a kind that an earlier
\* constructor returned already.
AbortsAt(n, i) ==
    \/ node[n].serviceFuncs[i].ctorErr # Nil
    \/ \E j \in 1..(i - 1) :
          /\ node[n].serviceFuncs[j].ctorErr = Nil
          /\ node[n].serviceFuncs[j].kind = node[n].serviceFuncs[i].kind

YieldedSameKind(n) ==
    \E i, j \in Range(last[n].ctors) :
        /\ i < j
        /\ node[n].serviceFuncs[i].ctorErr = Nil
        /\ node[n].serviceFuncs[j].ctorErr = Nil
        /\ node[n].serviceFuncs[i].kind = node[n].serviceFuncs[j].kind

\* C9: if two constructors yield the same kind, Start fails with
\* DuplicateServiceError, the p2p server is never started and Start is
\* invoked on no service.
C9_DuplicateKindAborts ==
    \A n \in live :
        (last[n].op = "Start" /\ YieldedSameKind(n)) =>
            /\ last[n].err = ErrDuplicateService
            /\ last[n].p2p = "none"
            /\ last[n].starts = <<>>
            /\ Idle(n)

\* C9 witness: a Start failed with DuplicateServiceError.
C9_Witness ==
    \E n \in live :
        /\ last[n].op = "Start"
        /\ YieldedSameKind(n)
        /\ last[n].err = ErrDuplicateService

\* C10: on a Node with healthy services of distinct kinds, alone on its
\* directory and with no collaborator failing, Start, Stop, Start succeeds
\* at every step, and the second Start invokes every constructor again and
\* commits a service map with the kinds of the first.
C10_StartStopStart ==
    \A n \in live :
        (HealthySet(n) /\ Alone(n) /\ ~last[n].fault) =>
            /\ (last[n].op = "Start" /\ last[n].first) => last[n].err = Nil
            /\ (last[n].op = "Stop" /\ last[n].run = 2) => last[n].err = Nil
            /\ (last[n].op = "Start" /\ last[n].run = 3) =>
                  /\ last[n].err = Nil
                  /\ last[n].ctors = Upto(Len(node[n].serviceFuncs))
                  /\ DOMAIN node[n].services = last[n].prevKinds

\* C10 witness: the second Start of Start, Stop, Start succeeded with two
\* healthy services.
C10_Witness ==
    \E n \in live :
        /\ HealthySet(n)
        /\ Len(node[n].serviceFuncs) = 2
        /\ last[n].op = "Start"
        /\ last[n].run = 3
        /\ last[n].err = Nil
        /\ DOMAIN node[n].services = last[n].prevKinds

\* The kinds whose Stop returns an error, among the registered constructors.
FailingStops(n) ==
    { node[n].serviceFuncs[i].kind :
        i \in { j \in 1..Len(node[n].serviceFuncs) :
                   node[n].serviceFuncs[j].stopErr # Nil } }

\* C11: a Stop on a Running Node invokes Stop exactly once on every service
\* of the committed map, also when some of them fail, stops the p2p server,
\* drops the instance lock (the lock file is free again unless Release itself
\* failed) and closes the stop channel; the Node is Idle afterwards whatever
\* Stop returns, and the StopError has an entry exactly for the kinds whose
\* Stop failed.
C11_StopTearsDownAll ==
    \A n \in live :
        (last[n].op = "Stop" /\ last[n].err # ErrNodeStopped) =>
            /\ Range(last[n].stops) = FuncKinds(n)
            /\ \A k \in FuncKinds(n) : Count(last[n].stops, k) = 1
            /\ last[n].p2p = "stopped"
            /\ ~HoldsLock(n)
            /\ ~last[n].fault => ~\E f \in flocks : f.owner = n
            /\ last[n].closed
            /\ node[n].stop \in closedChans
            /\ Idle(n)
            /\ last[n].failed = FailingStops(n)
            /\ (last[n].err = ErrStop) <=> (FailingStops(n) # {})

\* C11 witness: a Stop of two services, of which one failed, returned a
\* StopError after releasing the instance lock.
C11_Witness ==
    \E n \in live :
        /\ last[n].op = "Stop"
        /\ last[n].err = ErrStop
        /\ Len(last[n].stops) = 2
        /\ Cardinality(last[n].failed) = 1
        /\ last[n].released
        /\ Idle(n)

\* The four RPC endpoints of a Node.
Transports == {"inproc", "ipc", "http", "ws"}

\* C12: an Idle Node has none of the four endpoints: no in-process handler
\* and no IPC, HTTP or WebSocket listener.
C12_IdleNoEndpoint ==
    \A n \in live : Idle(n) => \A tr \in Transports : ~EndpointUp(n, tr)

\* HTTP and WS are configured with the same host:port.
SharedAddr(n) ==
    /\ HTTPEndpoint(node[n].config) # NoEndpoint
    /\ HTTPEndpoint(node[n].config) = WSEndpoint(node[n].config)

\* Two header values are equal up to the case of their letters.
EqualFold(str, t) ==
    /\ Len(str) = Len(t)
    /\ \A i \in 1..Len(str) :
          \/ str[i] = t[i]
          \/ <<str[i], t[i]>> \in CasePairs
          \/ <<t[i], str[i]>> \in CasePairs

\* C13: with HTTP and WS configured on one host:port, a successful Start
\* leaves exactly one TCP listener of the Node on that address, and a request
\* arriving there goes to the WebSocket dispatcher if and only if its Upgrade
\* header is "websocket" and its Connection header is "upgrade", both up to
\* case; every other request goes to the HTTP dispatcher.
C13_SharedListenerRouting ==
    \A n \in live :
        SharedAddr(n) =>
            /\ (last[n].op = "Start" /\ last[n].err = Nil) =>
                  Cardinality({ l \in listeners :
                                  /\ l.node = n
                                  /\ l.tr \in {"http", "ws"}
                                  /\ l.addr = HTTPEndpoint(node[n].config) }) = 1
            /\ last[n].op = "ServeHTTP" =>
                  /\ last[n].routed \in {"ws", "http"}
                  /\ (last[n].routed = "ws") <=>
                        /\ EqualFold(last[n].req.Upgrade, websocket)
                        /\ EqualFold(last[n].req.Connection, upgrade)

\* C13 witness: on the shared listener a request with headers in mixed case
\* went to the WebSocket dispatcher.
C13_Witness ==
    \E n \in live :
        /\ SharedAddr(n)
        /\ last[n].op = "ServeHTTP"
        /\ last[n].routed = "ws"
        /\ last[n].req.Upgrade # websocket
        /\ last[n].req.Connection # upgrade

\* The namespaces of a set of APIs.
Namespaces(al) == { api.Namespace : api \in al }

\* The built-in APIs together with the APIs of every registered service.
AggregatedAPIs(n) ==
    apis \cup UNION { ServiceAPIs(k) : k \in FuncKinds(n) }

\* C14: after a successful Start the in-process handler has every API of the
\* aggregated list registered, hence every namespace of it; and where HTTP
\* is configured with a module whitelist of exactly one namespace, the HTTP
\* handler has the APIs of that namespace registered and no other.
C14_InProcAllHTTPWhitelisted ==
    \A n \in live :
        (last[n].op = "Start" /\ last[n].err = Nil) =>
            /\ node[n].inprocHandler.apis = AggregatedAPIs(n)
            /\ Namespaces(node[n].inprocHandler.apis) = Namespaces(AggregatedAPIs(n))
            /\ ( /\ HTTPEndpoint(node[n].config) # NoEndpoint
                 /\ Cardinality(node[n].config.HTTPModules) = 1 ) =>
                    /\ ~node[n].httpHandler.nil
                    /\ node[n].httpHandler.apis =
                          { api \in AggregatedAPIs(n) :
                              api.Namespace \in node[n].config.HTTPModules }
                    /\ Namespaces(node[n].httpHandler.apis) = node[n].config.HTTPModules

\* C14 witness: a Start succeeded with a service whose namespace is registered
\* in-process and not over HTTP, where the whitelist has one namespace.
C14_Witness ==
    \E n \in live :
        /\ last[n].op = "Start"
        /\ last[n].err = Nil
        /\ Cardinality(node[n].config.HTTPModules) = 1
        /\ "a" \in Namespaces(node[n].inprocHandler.apis)
        /\ "a" \notin Namespaces(node[n].httpHandler.apis)
        /\ Namespaces(node[n].httpHandler.apis) = {"web3"}

\* Whitelist resolution as specified: a non-empty whitelist selects exactly
\* the APIs of its namespaces; an empty one selects every API under
\* exposeAll and the public APIs otherwise.
Resolved(al, modules, exposeAll) ==
    IF modules # {} THEN { api \in al : api.Namespace \in modules }
    ELSE IF exposeAll THEN al
    ELSE { api \in al : api.Public }

\* C15: the APIs registered on the HTTP handler and on the WebSocket handler
\* by a successful Start are those that whitelist resolution, as specified,
\* selects from the aggregated list for the configured whitelist and
\* exposeAll flag (HTTP: never exposeAll).
C15_WhitelistResolution ==
    \A n \in live :
        (last[n].op = "Start" /\ last[n].err = Nil) =>
            /\ ~node[n].httpHandler.nil =>
                  node[n].httpHandler.apis =
                      Resolved(AggregatedAPIs(n), node[n].config.HTTPModules, FALSE)
            /\ ~node[n].wsHandler.nil =>
                  node[n].wsHandler.apis =
                      Resolved(AggregatedAPIs(n), node[n].config.WSModules,
                               node[n].config.WSExposeAll)

\* C16: a Wait called on an Idle Node returns at once and one called on a
\* Running Node blocks; a Wait that blocked has not returned unless a Stop
\* has torn the Node down since; that Stop makes the receive of every
\* goroutine blocked at that time ready, and no other step does; and a
\* goroutine whose Node was stopped since it blocked returns eventually,
\* whatever happens to the Node afterwards.
C16_Wait ==
    /\ [][ \A w \in Waiters :
             (waiters[w].pc = "idle" /\ waiters'[w].pc # "idle") =>
                IF Idle(waiters'[w].node)
                THEN waiters'[w].pc = "returned" /\ waiters'[w].immediate
                ELSE waiters'[w].pc = "blocked" ]_vars
    /\ [](\A w \in Waiters :
            /\ (waiters[w].pc = "returned" /\ ~waiters[w].immediate) => waiters[w].ended
            /\ waiters[w].pc = "blocked" =>
                  (waiters[w].ended <=> waiters[w].ch \in closedChans))
    /\ \A w \in Waiters :
          (waiters[w].pc = "blocked" /\ waiters[w].ended) ~> (waiters[w].pc = "returned")

\* C16 witness: two goroutines blocked in Wait have both returned, and the
\* Node is Running again.
C16_Witness ==
    /\ \A w \in Waiters :
          /\ waiters[w].pc = "returned"
          /\ ~waiters[w].immediate
          /\ waiters[w].ended
    /\ Running(1)

\* C17: Node.Service on an Idle Node returns ErrNodeStopped for every kind;
\* on a Running Node it hands out, for a kind that a registered constructor
\* built in the Start of this Running period, the instance that constructor
\* built, and returns ErrServiceUnknown for every other kind.
C17_NodeService ==
    \A n \in live :
        last[n].op = "Service" =>
            IF Idle(n)
            THEN last[n].err = ErrNodeStopped /\ last[n].inst = 0
            ELSE IF last[n].kind \in FuncKinds(n)
            THEN /\ last[n].err = Nil
                 /\ last[n].inst \in 1..Len(node[n].serviceFuncs)
                 /\ node[n].serviceFuncs[last[n].inst].kind = last[n].kind
            ELSE last[n].err = ErrServiceUnknown /\ last[n].inst = 0

\* C17 witness: after a Start that failed and left the Node Idle (it still
\* holds the instance lock), Node.Service for the registered kind returned
\* ErrNodeStopped.
C17_Witness ==
    \E n \in live :
        /\ last[n].op = "Service"
        /\ last[n].err = ErrNodeStopped
        /\ last[n].kind \in FuncKinds(n)
        /\ HoldsLock(n)

\* C18: in a Start pass, the ServiceContext handed to constructor i resolves
\* a kind if and only if one of the constructors 1..i-1 of this pass built a
\* service of that kind, and then to that service; every other kind, the
\* constructor's own and those of later constructors among them, gets
\* ErrServiceUnknown.
C18_ContextLookup ==
    \A n \in live :
        last[n].op = "Start" =>
            /\ Len(last[n].ctxs) = Len(last[n].ctors)
            /\ \A p \in 1..Len(last[n].ctors), kind \in Kinds :
                  LET i == last[n].ctors[p]
                      r == ContextService(last[n].ctxs[p], kind)
                      before == { j \in 1..(i - 1) :
                                    /\ node[n].serviceFuncs[j].ctorErr = Nil
                                    /\ node[n].serviceFuncs[j].kind = kind }
                  IN  IF before # {}
                      THEN r.err = Nil /\ r.inst \in before
                      ELSE r.err = ErrServiceUnknown

\* C18 witness: in the second Start pass of a Node with two constructors,
\* the second constructor's context resolves the kind of the first and not
\* its own, and the first constructor's context resolves no kind.
C18_Witness ==
    \E n \in live :
        /\ last[n].op = "Start"
        /\ last[n].run = 3
        /\ Len(last[n].ctxs) = 2
        /\ DOMAIN last[n].ctxs[1].services = {}
        /\ DOMAIN last[n].ctxs[2].services = {node[n].serviceFuncs[1].kind}
        /\ node[n].serviceFuncs[2].kind # node[n].serviceFuncs[1].kind

\* Transport tr of Node n is being served: on a listener of its own or, for
\* WS, on the HTTP listener whose handler upgrades WebSocket requests.
Active(n, tr) ==
    \/ \E l \in listeners : l.node = n /\ l.tr = tr
    \/ /\ tr = "ws"
       /\ ~node[n].httpHandler.nil
       /\ node[n].httpHandler.ws
       /\ \E l \in listeners : l.node = n /\ l.tr = "http"

\* The step is the administrative call op on Node n.
AdminStep(n, op) == last'[n] # last[n] /\ last'[n].op = op

\* The administrative call of the step failed and changed nothing.
AdminRefused(n) ==
    /\ last'[n].err # Nil
    /\ node'[n] = node[n]
    /\ listeners' = listeners

\* The administrative start of the step, directly after a successful stop
\* of the same transport on a Running Node, with default arguments, its
\* address free and no failing listener.
Restarted(n, stop, start, addr) ==
    /\ Running(n)
    /\ last[n].op = stop /\ last[n].err = Nil
    /\ AdminStep(n, start)
    /\ last'[n].host = {} /\ last'[n].port = {}
    /\ last'[n].modules = {} /\ ~last'[n].fault
    /\ ~AddrInUse(listeners, addr)

\* C19: an administrative start of HTTP, or of WS, on a Node where that
\* transport is being served fails and changes nothing; an administrative
\* stop where it is not being served fails and changes nothing; and an
\* administrative start directly after a successful stop of the same
\* transport on a Running Node succeeds.
C19_AdminStartStop ==
    [][ \A n \in live :
          /\ (AdminStep(n, "StartRPC") /\ Active(n, "http")) => AdminRefused(n)
          /\ (AdminStep(n, "StartWS") /\ Active(n, "ws")) => AdminRefused(n)
          /\ (AdminStep(n, "StopRPC") /\ ~Active(n, "http")) => AdminRefused(n)
          /\ (AdminStep(n, "StopWS") /\ ~Active(n, "ws")) => AdminRefused(n)
          /\ Restarted(n, "StopRPC", "StartRPC", HTTPEndpoint(node[n].config)) =>
                last'[n].err = Nil
          /\ Restarted(n, "StopWS", "StartWS", WSEndpoint(node[n].config)) =>
                last'[n].err = Nil ]_vars

\* C20: between the Stop and the Start of a Restart of Node n, no other
\* call on n runs: no field of n changes and no call on n returns.
C20_RestartAtomic ==
    [][ \A n \in live :
          (restarting[n] /\ restarting'[n]) =>
             /\ node'[n] = node[n]
             /\ last'[n] = last[n] ]_vars

\* C21: a reader never finds a Node half updated.  Whenever RLock admits a
\* reader, the fields it can read show either the p2p server together with
\* the whole committed service map and the in-process handler, or no p2p
\* server and no service; and what the readers returned agrees: Server
\* returns the server exactly when the Node is Running, Service resolves
\* exactly the committed kinds of a Running Node and returns
\* ErrNodeStopped on an Idle one, Attach yields a client of a live handler
\* on a Running Node and ErrNodeStopped on an Idle one.
C21_ReadersSeeWhole ==
    \A n \in live :
        /\ RLock(n) =>
              LET v == View(n) IN
              /\ v.server # Nil =>
                    /\ DOMAIN v.services = FuncKinds(n)
                    /\ ~v.inprocHandler.nil
              /\ v.server = Nil => DOMAIN v.services = {}
        /\ last[n].op = "Read" =>
              IF Idle(n)
              THEN /\ ~last[n].present
                   /\ last[n].reader # "Server" => last[n].err = ErrNodeStopped
              ELSE /\ last[n].reader \in {"Server", "Attach"} =>
                        last[n].present /\ last[n].err = Nil
                   /\ last[n].reader = "Service" =>
                        /\ last[n].present <=> last[n].kind \in FuncKinds(n)
                        /\ last[n].err = IF last[n].present THEN Nil
                                         ELSE ErrServiceUnknown

\* C21 witness: a Start is in its body and has assigned n.services and not
\* yet n.server, so memory holds a half updated Node, and the lock keeps
\* every reader out.
C21_Witness ==
    \E n \in live :
        /\ writing[n].held
        /\ ~RLock(n)
        /\ View(n).server = Nil
        /\ DOMAIN View(n).services # {}

\* The position in serviceFuncs of the constructor that builds kind k.
FuncIndex(n, k) ==
    CHOOSE i \in 1..Len(node[n].serviceFuncs) : node[n].serviceFuncs[i].kind = k

\* C22: a Start invokes the Start of the constructed services in
\* construction order, which is registration order: of two services, the
\* one registered first has its Start invoked first.
C22_StartInRegistrationOrder ==
    \A n \in live :
        last[n].op = "Start" =>
            \A p, q \in 1..Len(last[n].starts) :
                p < q => FuncIndex(n, last[n].starts[p]) < FuncIndex(n, last[n].starts[q])

\* The places of call c in the trace of the last call on n.
Places(n, c) == { i \in 1..Len(last[n].trace) : last[n].trace[i] = c }

\* In the trace of the last call on n, every call c comes before every call d.
Before(n, c, d) == \A i \in Places(n, c), j \in Places(n, d) : i < j

\* C23: a Stop of a Running Node stops the WS endpoint, then the HTTP
\* endpoint, then the IPC endpoint, each once; then the services, each
\* once; then the p2p server, once; then it releases the instance lock, if
\* it holds one; then it closes the stop channel.
C23_StopOrder ==
    \A n \in live :
        (last[n].op = "Stop" /\ last[n].err # ErrNodeStopped) =>
            /\ \A c \in {"stopWS", "stopHTTP", "stopIPC", "server.Stop", "close"}
                        \cup Range(last[n].stops) :
                  Cardinality(Places(n, c)) = 1
            /\ Cardinality(Places(n, "Release")) = IF last[n].released THEN 1 ELSE 0
            /\ Before(n, "stopWS", "stopHTTP")
            /\ Before(n, "stopHTTP", "stopIPC")
            /\ \A k \in Range(last[n].stops) :
                  /\ Before(n, "stopIPC", k)
                  /\ Before(n, k, "server.Stop")
            /\ Before(n, "stopIPC", "server.Stop")
            /\ Before(n, "server.Stop", "Release")
            /\ Before(n, "server.Stop", "close")
            /\ Before(n, "Release", "close")

\* C23 witness: a Stop tore down a Node with two services, an HTTP and an IPC
\* endpoint and the instance lock.
C23_Witness ==
    \E n \in live :
        /\ last[n].op = "Stop"
        /\ Len(last[n].stops) = 2
        /\ last[n].released
        /\ Places(n, "Release") # {}
        /\ node[n].ipcEndpoint # NoEndpoint
        /\ node[n].httpEndpoint # NoEndpoint

\* C24: a Stop of a Running Node returns an error if and only if the Stop
\* of some service failed or the removal of the ephemeral key store failed;
\* when Release fails, Stop returns what it returns otherwise and the stop
\* channel is closed all the same.
C24_StopErrorIff ==
    \A n \in live :
        (last[n].op = "Stop" /\ last[n].p2p = "stopped") =>
            /\ (last[n].err # Nil) <=>
                  (FailingStops(n) # {} \/ last[n].keystoreErr # Nil)
            /\ last[n].releaseErr # Nil =>
                  /\ last[n].err = (IF FailingStops(n) # {} THEN ErrStop ELSE Nil)
                  /\ last[n].closed
                  /\ node[n].stop \in closedChans

\* C24 witness: Release failed, and Stop returned nil and closed the stop
\* channel.
C24_Witness ==
    \E n \in live :
        /\ last[n].op = "Stop"
        /\ last[n].releaseErr # Nil
        /\ last[n].err = Nil
        /\ node[n].stop \in closedChans

\* C25: a request that goes to the WebSocket dispatcher, on a listener of
\* the WS endpoint or on the listener WS shares with HTTP, is served the
\* namespaces that RegisterApisFromWhitelist selects from the aggregated
\* list for the WS module whitelist and WSExposeAll.
C25_WSNamespaces ==
    \A n \in live :
        (last[n].op = "ServeHTTP" /\ last[n].routed = "ws") =>
            Namespaces(last[n].served) =
                Namespaces(RegisterApisFromWhitelist(AggregatedAPIs(n),
                                                     node[n].config.WSModules,
                                                     node[n].config.WSExposeAll))

\* C26: the HTTP endpoint that an administrative StartRPC started admits,
\* when a vhosts argument was given, exactly the entries of that comma
\* separated list, each trimmed, whatever the host argument; and the
\* configured virtual hosts when none was given.
C26_VHostsOverride ==
    \A n \in live :
        (last[n].op = "StartRPC" /\ last[n].err = Nil) =>
            node[n].httpHandler.vhosts =
                IF last[n].vhosts = {} THEN HTTPVirtualHosts(node[n].config)
                ELSE SplitTrimmed(Deref(last[n].vhosts))

\* Transport tr of Node n is being served at address addr, and nowhere else.
ServedAt(n, tr, addr) ==
    LET own == { l \in listeners : l.node = n /\ l.tr = tr }
        shared == { l \in listeners :
                      /\ tr = "ws" /\ l.node = n /\ l.tr = "http"
                      /\ ~node[n].httpHandler.nil /\ node[n].httpHandler.ws }
    IN  { l.addr : l \in own \cup shared } = {addr}

\* C27: after a successful Start, whatever calls came before it, the HTTP
\* endpoint is being served if and only if the configuration has an HTTP
\* host, and then at the configured address; and likewise the WS endpoint.
C27_StartBindsConfigured ==
    \A n \in live :
        (last[n].op = "Start" /\ last[n].err = Nil) =>
            /\ Active(n, "http") <=> node[n].config.HTTPHost # ""
            /\ Active(n, "http") => ServedAt(n, "http", HTTPEndpoint(node[n].config))
            /\ Active(n, "ws") <=> node[n].config.WSHost # ""
            /\ Active(n, "ws") => ServedAt(n, "ws", WSEndpoint(node[n].config))

\* C29: an administrative StartRPC given no apis argument registers on the
\* HTTP handler what Start registers on it under the same configuration:
\* the APIs that RegisterApisFromWhitelist selects from the aggregated list
\* for the configured HTTP module whitelist.
C29_AdminDefaultModules ==
    \A n \in live :
        (last[n].op = "StartRPC" /\ last[n].err = Nil /\ last[n].modules = {}) =>
            node[n].httpHandler.apis =
                RegisterApisFromWhitelist(node[n].rpcAPIs,
                                          node[n].config.HTTPModules, FALSE)

\* C28: the forwarding goroutine of a peer-event subscription returns
\* eventually once sub.Err(), rpcSub.Err() or notifier.Closed() is ready;
\* after it has returned it passes no event to the notifier and stays
\* returned; and whenever it has returned, its subscription to the p2p
\* server's events is released.
C28_ForwarderTerminates ==
    /\ [][ sub.pc = "done" =>
             /\ sub'.pc = "done"
             /\ sub'.forwarded = sub.forwarded ]_vars
    /\ [](sub.pc = "done" => ~sub.subscribed)
    /\ \A flag \in {"subErr", "rpcSubErr", "closed"} :
          (sub.pc \in {"spawned", "loop"} /\ sub[flag]) ~> (sub.pc = "done")

\* C28 witness: the goroutine has passed an event on and has returned after
\* the notifier closed, the other two channels not being ready.
C28_Witness ==
    /\ sub.pc = "done"
    /\ sub.forwarded > 0
    /\ sub.closed
    /\ ~sub.subErr
    /\ ~sub.rpcSubErr
    /\ ~sub.subscribed
====
